---- MODULE Spec2Model ----
(***************************************************************************)
(* Wallet ledger of gw-currency-wallet: the wallets table behind           *)
(* WalletWriterRepository / WalletReaderRepository, the Redis rate cache,  *)
(* and the WalletService operations Deposit, Withdraw, GetUserBalance and  *)
(* Exchange, run by concurrent request goroutines.                         *)
(*                                                                         *)
(* Money is counted in minor units (cents): the balance column is          *)
(* NUMERIC(20,2).  A float64 amount handed to the store is a pair of whole *)
(* cents and a remainder in "fine" units of 1/RateScale cent, so that      *)
(* amount*rate is exact before the store rounds it to the column's scale   *)
(* and an amount of the audit threshold stays within the integers of the   *)
(* checker.  float32/float64 arithmetic is taken as exact decimal          *)
(* arithmetic.                                                             *)
(***************************************************************************)
EXTENDS Integers, Sequences, FiniteSets, TLC

VARIABLES
  wallets,      \* wallets table: [user, currency] -> NoRow or balance in cents
  cache,        \* Redis rate cache: [from, to] -> NoRate or cached rate
  pc,           \* position of each request goroutine: "new", a step, "done"
  call,         \* arguments of the call each goroutine is serving
  rate,         \* local variable rate of Exchange
  exchanged,    \* local variable exchangedAmount of Exchange (fine units)
  trace,        \* collaborator calls issued by the current call, in order
  pre,          \* rows of the call's user when the call started
  alone,        \* no other goroutine mutated the call's user since it started
  returned,     \* the response written by the latest step, if any
  credited,     \* [user, currency] -> cents added by successful SaveDeposit
  wlog,         \* [user, currency] -> the SaveWithdraw statements the store answered
  published,    \* messages handed to the Kafka writer
  tokens,       \* users who hold a valid JWT: AuthMiddleware lets them in
  faults,       \* {FALSE}: Postgres and Redis answer every statement;
                \* BOOLEAN: a statement may fail
  redis,        \* Redis: key -> the string stored and the time it is due
  now,          \* seconds passed
  lastSet,      \* [from, to] -> rate and time of the last SetRate of the pair
  answer,       \* what the last GetRate returned, for which pair and when
  txpc,         \* position of each request inside TxMiddleware
  txlog,        \* per request: Begin, ServeHTTP, store calls, Commit, Rollback
  resp,         \* per request: the status the response was sent with
  users,        \* the users table: username -> email and password hash
  registered    \* the last Register call: its arguments, error, table before

\* what the wallet endpoints leave alone
redisVars == <<redis, now, lastSet, answer>>
txVars == <<txpc, txlog, resp>>
authVars == <<users, registered>>
outside == <<tokens, faults, redisVars, txVars, authVars>>

\* the state of the wallet endpoints
ledger == <<wallets, cache, pc, call, rate, exchanged, trace, pre, alone,
            returned, credited, wlog, published, tokens, faults>>

vars == <<ledger, redisVars, txVars, authVars>>

----------------------------------------------------------------------------
(* Bounds *)

NumRequests == 2
\* seconds the clock of the cache runs
MaxTime == 3

(* Program constants *)

\* balance NUMERIC(20, 2)
BalanceScale == 2
\* fmt.Sprintf("%f", rate): six decimals
RateDecimals == 6
largeAmountThreshold == 30000
\* the expiry the cache repository is built with, in seconds
RedisExp == 2

CentsPerUnit == 10 ^ BalanceScale
RateScale == 10 ^ (RateDecimals + 1)

Callers == 1..NumRequests
Users == {"u1", "u2"}
Currencies == {"USD", "EUR"}
\* a code no handler recognizes, and every code a request may name
Unrecognized == {"GBP"}
Codes == Currencies \cup Unrecognized
LargeAmount == largeAmountThreshold * CentsPerUnit
\* request amounts, in cents
Amounts == {1, 2}
\* amount and currency of a deposit or withdraw request: every good amount
\* in every currency, an amount that is not positive, and an unrecognized
\* code
MoneyRequests ==
  (Amounts \X Currencies)
    \cup {<<0, "USD">>, <<1, "GBP">>, <<LargeAmount, "USD">>}
\* amount and pair of an exchange request: every good amount for a pair of
\* recognized codes and for a pair with an unrecognized one, and an amount
\* that is not positive
ExchangeRequests ==
  (Amounts \X {<<"USD", "EUR">>}) \cup {<<1, <<"USD", "GBP">>>>,
                                        <<0, <<"USD", "EUR">>>>}
\* balances the table may hold when the first request arrives, in cents
InitBalances == {2}
\* the rate the source quotes: 0.5
Rates == {5 * 10 ^ RateDecimals}

NoRow == -1
NoRate == -1
NoCall == [op |-> "none"]
NoRet == [op |-> "none"]

----------------------------------------------------------------------------
(* Errors *)

ErrInsufficientFunds == "services.ErrInsufficientFunds"
ErrNoRows == "sql.ErrNoRows"
ErrStorage == "storage error"
ErrRateSource == "rate source error"
ErrCache == "cache error"
Nil == "nil"
\* the handler answered without calling the service
NotCalled == "not called"
\* what publishTransaction logs: the error of WriteMessages, or the warning
\* that no writer is configured
ErrPublish == "kafka error"
ErrNoWriter == "kafka writer not configured"

StatusOK == 200
StatusBadRequest == 400
StatusInternalServerError == 500
\* nothing has been written to the response yet
NoStatus == 0

----------------------------------------------------------------------------
(* The wallets table *)

\* a float64 amount: whole cents and fine units below one cent
Fine(cents) == <<cents, 0>>

\* 1 if a remainder of f fine units rounds up to a cent, else 0
HalfUp(f) == IF 2 * f >= RateScale THEN 1 ELSE 0

\* assignment to a NUMERIC(20,2) column rounds to two decimals, half away
\* from zero
RoundNumeric(x) == x[1] + HalfUp(x[2])

\* balance - $4 as the column stores it
RoundedDifference(bal, x) ==
  LET d == bal - x[1]
  IN IF x[2] = 0 THEN d
     ELSE IF d > 0 THEN d - 1 + HalfUp(RateScale - x[2])
     ELSE -((-d) + HalfUp(x[2]))

\* balance >= $4, balance > $4
Covers(bal, x) == bal > x[1] \/ (bal = x[1] /\ x[2] = 0)
Exceeds(bal, x) == bal > x[1]

\* an upsert that overwrote the balance instead of adding to it
SaveDepositRow_Overwrite(bal, x) == RoundNumeric(x)

\* INSERT ... VALUES ($4) ON CONFLICT DO UPDATE SET balance = balance + EXCLUDED.balance
SaveDepositRow(bal, x) ==
  IF bal = NoRow THEN RoundNumeric(x) ELSE bal + RoundNumeric(x)

\* the statement without its WHERE clause
SaveWithdrawRow_Unguarded(bal, x) ==
  IF bal = NoRow THEN [err |-> Nil, bal |-> 0]
  ELSE [err |-> Nil, bal |-> RoundedDifference(bal, x)]

\* the statement with WHERE balance > $4
SaveWithdrawRow_Strict(bal, x) ==
  IF bal = NoRow THEN [err |-> Nil, bal |-> 0]
  ELSE IF Exceeds(bal, x)
       THEN [err |-> Nil, bal |-> RoundedDifference(bal, x)]
  ELSE [err |-> ErrNoRows, bal |-> bal]

\* INSERT ... VALUES (0) ON CONFLICT DO UPDATE SET balance = balance - $4
\* WHERE balance >= $4 RETURNING balance
SaveWithdrawRow(bal, x) ==
  IF bal = NoRow THEN [err |-> Nil, bal |-> 0]
  ELSE IF Covers(bal, x)
       THEN [err |-> Nil, bal |-> RoundedDifference(bal, x)]
  ELSE [err |-> ErrNoRows, bal |-> bal]

\* a reader that reported the row's content, a missing row included
Balance_Raw(row) == row

\* a table whose rows conflict on the currency alone
Upsert_ByCurrency(w, u, c, row) ==
  [k \in DOMAIN w |-> IF k[2] = c THEN row ELSE w[k]]

\* ON CONFLICT (user_id, currency): the statement writes the one row of the
\* pair
Upsert(w, u, c, row) == [w EXCEPT ![u, c] = row]

\* the balance a reader reports for a row
Balance(row) == IF row = NoRow THEN 0 ELSE row

\* SELECT currency, balance FROM wallets WHERE user_id = $1, then
\* balances[models.USD] etc: a missing key reads as 0
GetByUserID(w, u) == [c \in Codes |-> Balance(w[u, c])]

ZeroBalances == [c \in Codes |-> 0]

\* the rows of user u: NoRow or the balance, by currency
Rows(w, u) == [c \in Codes |-> w[u, c]]
NoRows == [c \in Codes |-> NoRow]

----------------------------------------------------------------------------
(* The Redis rate cache *)

\* a rate written with no decimals
FormatRate_Integer(r) == (r \div RateScale) * RateScale

\* fmt.Sprintf("%f", rate) keeps six decimals; strconv.ParseFloat reads
\* them back
FormatRate(r) == ((r + 5) \div 10) * 10

CacheKeys == {rq[2] : rq \in ExchangeRequests}

\* fmt.Sprintf("exchange_rate:%s:%s", fromCurrency, toCurrency)
RedisKey(from, to) == "exchange_rate:" \o from \o ":" \o to

\* the pairs asked of the cache, and their keys
Pairs == Currencies \X Currencies
RedisKeys == {RedisKey(pr[1], pr[2]) : pr \in Pairs}

\* rates handed to SetRate: 0.5 and 0.0108234
QuotedRates == Rates \cup {108234}

NoEntry == [val |-> NoRate]
NoSet == [rate |-> NoRate]
NoAnswer == [rate |-> NoRate, at |-> NoRate]

\* a key is live until its expiry time
Live(e, t) == e # NoEntry /\ t < e.due

----------------------------------------------------------------------------
(* HTTP handlers *)

validCurrencies == {"USD", "RUB", "EUR"}

\* a deposit handler that did not look at the amount
ValidRequest_AnyAmount(a, c) == c \in validCurrencies

\* deposit and withdraw handlers: req.Amount <= 0 and validCurrencies
ValidRequest(a, c) == a > 0 /\ c \in validCurrencies

\* exchange handler: req.Amount <= 0
ValidExchangeRequest(a, from, to) == a > 0

\* the status each handler writes for the error its service call returned
HandlerStatus(op, err) ==
  IF err = Nil THEN StatusOK
  ELSE IF op \in {"Withdraw", "Exchange"} /\ err = ErrInsufficientFunds
       THEN StatusBadRequest
  ELSE StatusInternalServerError

----------------------------------------------------------------------------
(* WalletService helpers *)

\* exchangedAmount = float32(amount) * rate, in fine units
ConvertedAmount(amount, r) ==
  <<(amount * r) \div RateScale, (amount * r) % RateScale>>

\* a rate error folded into the insufficient-funds error
ExchangeRateError_Folded(err) == ErrInsufficientFunds

\* Exchange: the rate source's error is returned as it is
ExchangeRateError(err) == err

\* an Exchange that returned the error of SetExchangeRateForCurrency
ExchangeCacheSetError_Returned(err) == err

\* Exchange: the error of SetExchangeRateForCurrency is logged and dropped
ExchangeCacheSetError(err) == Nil

\* Exchange: any SaveWithdraw error is returned as ErrInsufficientFunds
ExchangeWithdrawError(err) == ErrInsufficientFunds

\* an Exchange that went on to the deposit whatever SaveWithdraw returned
DepositFollows_Always(err) == TRUE

\* Exchange: SaveDeposit is called only if SaveWithdraw returned nil
DepositFollows(err) == err = Nil

\* a deposit error folded into the insufficient-funds error
ExchangeDepositError_Folded(err) == ErrInsufficientFunds

\* Exchange: the SaveDeposit error is returned as it is
ExchangeDepositError(err) == err

\* publishTransaction: the messages written for one transaction
publishTransaction(writer, amount, user, receiver, delivered) ==
  IF writer = "nil" THEN <<>>
  ELSE IF amount < LargeAmount THEN <<>>
  ELSE <<[amount |-> amount, sender |-> user, receiver |-> receiver,
          delivered |-> delivered]>>

\* publishTransaction: what the call leaves in the log
PublishLogged(writer, amount, delivered) ==
  IF writer = "nil" THEN ErrNoWriter
  ELSE IF amount < LargeAmount \/ delivered THEN Nil
  ELSE ErrPublish

\* the service was built with or without a Kafka writer
Writers == {"nil", "set"}

\* a service that returned what publishTransaction logged
PublishError_Returned(logged) == logged

\* Deposit, Withdraw: publishTransaction returns nothing, the method returns
\* nil after it
PublishError(logged) == Nil

\* a lookup that answered a rate of 1 for an absent key
CacheGetOutcomes_Default(cached) ==
  {IF cached = NoRate THEN RateScale ELSE cached, NoRate}

\* what the cache lookup may answer: the cached rate, or an error (redis.Nil
\* for an absent or expired key, or a Redis failure)
CacheGetOutcomes(cached) == {cached, NoRate}

Busy(p) == pc[p] \notin {"new", "done"}

\* requests are numbered in the order in which they reach the service
Arrives(p) ==
  /\ returned = NoRet
  /\ pc[p] = "new"
  /\ p > 1 => pc[p - 1] # "new"

\* goroutine p is about to make the collaborator call at loc
At(p, loc) == returned = NoRet /\ pc[p] = loc

NewCall(op, u, c, t, a) ==
  [op |-> op, user |-> u, cur |-> c, to |-> t, amount |-> a]

\* goroutines other than p that are serving a call of user u lose `alone`
Disturb(p, u) ==
  [q \in Callers |->
     IF q # p /\ Busy(q) /\ call[q].user = u THEN FALSE ELSE alone[q]]

Entry(fn, err) == [fn |-> fn, err |-> err]

\* one SaveWithdraw statement as the store answered it: the row before and
\* after it, and the service method that issued it
Answer(op, a, before, r) ==
  [op |-> op, amount |-> a, err |-> r.err, before |-> before, after |-> r.bal]

\* the call goes on to its next collaborator call
Goto(p, next, tr) ==
  /\ pc' = [pc EXCEPT ![p] = next]
  /\ trace' = [trace EXCEPT ![p] = tr]
  /\ returned' = NoRet

\* call c returns (err, exchangedAmount, balances); the goroutine ends
Return(p, c, pr, err, ex, bal, tr) ==
  /\ returned' = [op |-> c.op, user |-> c.user, cur |-> c.cur, to |-> c.to,
                  amount |-> c.amount, err |-> err, exchanged |-> ex,
                  bal |-> bal, rate |-> rate[p], pre |-> pr,
                  alone |-> alone[p], trace |-> tr,
                  status |-> HandlerStatus(c.op, err)]
  /\ pc' = [pc EXCEPT ![p] = "done"]
  /\ call' = [call EXCEPT ![p] = NoCall]
  /\ rate' = [rate EXCEPT ![p] = NoRate]
  /\ exchanged' = [exchanged EXCEPT ![p] = Fine(0)]
  /\ trace' = [trace EXCEPT ![p] = <<>>]
  /\ pre' = [pre EXCEPT ![p] = NoRows]
  /\ alone' = [alone EXCEPT ![p] = TRUE]

\* the handler rejects request c before it calls the service
Reject(p, c, pr) ==
  /\ returned' = [op |-> c.op, user |-> c.user, cur |-> c.cur, to |-> c.to,
                  amount |-> c.amount, err |-> NotCalled,
                  exchanged |-> Fine(0),
                  bal |-> ZeroBalances, rate |-> NoRate, pre |-> pr,
                  alone |-> TRUE, trace |-> <<>>,
                  status |-> StatusBadRequest]
  /\ pc' = [pc EXCEPT ![p] = "done"]
  /\ UNCHANGED <<wallets, cache, call, rate, exchanged, trace, pre, alone,
                 credited, wlog, published>>

----------------------------------------------------------------------------
\* the table holds what an earlier USD deposit of u1 left in it, if there
\* was one
WalletInit ==
  /\ \E b \in {NoRow} \cup InitBalances :
       wallets = [k \in Users \X Codes |->
                    IF k = <<"u1", "USD">> THEN b ELSE NoRow]
  /\ cache = [k \in CacheKeys |-> NoRate]
  /\ pc = [p \in Callers |-> "new"]
  /\ call = [p \in Callers |-> NoCall]
  /\ rate = [p \in Callers |-> NoRate]
  /\ exchanged = [p \in Callers |-> Fine(0)]
  /\ trace = [p \in Callers |-> <<>>]
  /\ pre = [p \in Callers |-> NoRows]
  /\ alone = [p \in Callers |-> TRUE]
  /\ returned = NoRet
  /\ credited = [k \in Users \X Codes |->
                   IF wallets[k] = NoRow THEN 0 ELSE wallets[k]]
  /\ wlog = [k \in Users \X Codes |-> <<>>]
  /\ published = <<>>

\* Redis holds no key
RedisInit ==
  /\ redis = [k \in RedisKeys |-> NoEntry]
  /\ now = 0
  /\ lastSet = [pr \in Pairs |-> NoSet]
  /\ answer = NoAnswer

\* no request has reached TxMiddleware
TxInit ==
  /\ txpc = [q \in Callers |-> "new"]
  /\ txlog = [q \in Callers |-> <<>>]
  /\ resp = [q \in Callers |-> NoStatus]

\* a row of the users table; NoUser where the username has no row
NoUser == [email |-> "-", hash |-> "-"]
NoRegister == [err |-> "-"]

\* the two users of the wallets, registered, and no Register call so far
AuthInit ==
  /\ users = [n \in Users |-> [email |-> n \o "@mail", hash |-> "bcrypt:pw"]]
  /\ registered = NoRegister

\* one user is logged in
Init ==
  /\ WalletInit /\ tokens = {"u1"} /\ faults = BOOLEAN /\ RedisInit /\ TxInit
  /\ AuthInit

\* every user is logged in, and the stores answer every statement
InitAllUsers ==
  /\ WalletInit /\ tokens = Users /\ faults = {FALSE} /\ RedisInit /\ TxInit
  /\ AuthInit

----------------------------------------------------------------------------
(* WalletService.Deposit(ctx, userID, amount, currency); the handler has   *)
(* checked amount > 0                                                      *)

\* s.writeRepo.SaveDeposit
DepositSave(p) ==
  /\ Arrives(p)
  /\ \E u \in tokens, rq \in MoneyRequests, fail \in faults :
       LET a == rq[1]
           c == rq[2]
           cl == NewCall("Deposit", u, c, c, a)
           pr == Rows(wallets, u)
           x == Fine(a)
       IN IF ~ValidRequest(a, c)
          THEN Reject(p, cl, pr)
          ELSE /\ IF fail
                  THEN /\ Return(p, cl, pr, ErrStorage, Fine(0), ZeroBalances,
                                 <<Entry("SaveDeposit", ErrStorage)>>)
                       /\ UNCHANGED <<wallets, credited>>
                  ELSE /\ wallets' = Upsert(wallets, u, c,
                                          SaveDepositRow(wallets[u, c], x))
                       /\ credited' = [credited EXCEPT
                                         ![u, c] = @ + RoundNumeric(x)]
                       /\ call' = [call EXCEPT ![p] = cl]
                       /\ pre' = [pre EXCEPT ![p] = pr]
                       /\ alone' = Disturb(p, u)
                       /\ Goto(p, "dep_read", <<Entry("SaveDeposit", Nil)>>)
                       /\ UNCHANGED <<rate, exchanged>>
               /\ UNCHANGED <<cache, wlog, published>>
  /\ UNCHANGED outside

\* s.readRepo.GetByUserID, s.publishTransaction, return
DepositRead(p) ==
  /\ At(p, "dep_read")
  /\ \E fail \in faults :
       IF fail
       THEN /\ Return(p, call[p], pre[p], ErrStorage, Fine(0), ZeroBalances,
                      Append(trace[p], Entry("GetByUserID", ErrStorage)))
            /\ UNCHANGED published
       ELSE \E writer \in Writers, delivered \in BOOLEAN :
              LET a == call[p].amount
                  logged == PublishLogged(writer, a, delivered)
                  err == PublishError(logged)
              IN /\ published' = published \o
                      publishTransaction(writer, a, call[p].user, "deposit",
                                         delivered)
                 /\ Return(p, call[p], pre[p], err, Fine(0),
                           IF err = Nil
                           THEN GetByUserID(wallets, call[p].user)
                           ELSE ZeroBalances,
                           trace[p] \o <<Entry("GetByUserID", Nil),
                                         Entry("publishTransaction", logged)>>)
  /\ UNCHANGED <<wallets, cache, credited, wlog>>
  /\ UNCHANGED outside

----------------------------------------------------------------------------
(* WalletService.Withdraw(ctx, userID, amount, currency)                   *)

\* s.writeRepo.SaveWithdraw; its error is returned as it is
WithdrawSave(p) ==
  /\ Arrives(p)
  /\ \E u \in tokens, rq \in MoneyRequests, fail \in faults :
       LET a == rq[1]
           c == rq[2]
           cl == NewCall("Withdraw", u, c, c, a)
           pr == Rows(wallets, u)
           r == SaveWithdrawRow(wallets[u, c], Fine(a))
           err == IF fail THEN ErrStorage ELSE r.err
       IN IF ~ValidRequest(a, c)
          THEN Reject(p, cl, pr)
          ELSE /\ IF err # Nil
                  THEN /\ Return(p, cl, pr, err, Fine(0), ZeroBalances,
                                 <<Entry("SaveWithdraw", err)>>)
                       /\ wlog' = IF fail THEN wlog
                                  ELSE [wlog EXCEPT ![u, c] =
                                          Append(@, Answer("Withdraw", a,
                                                           wallets[u, c], r))]
                       /\ UNCHANGED wallets
                  ELSE /\ wallets' = Upsert(wallets, u, c, r.bal)
                       /\ wlog' = [wlog EXCEPT ![u, c] =
                                     Append(@, Answer("Withdraw", a,
                                                      wallets[u, c], r))]
                       /\ call' = [call EXCEPT ![p] = cl]
                       /\ pre' = [pre EXCEPT ![p] = pr]
                       /\ alone' = Disturb(p, u)
                       /\ Goto(p, "wd_read", <<Entry("SaveWithdraw", Nil)>>)
                       /\ UNCHANGED <<rate, exchanged>>
               /\ UNCHANGED <<cache, credited, published>>
  /\ UNCHANGED outside

\* s.readRepo.GetByUserID, s.publishTransaction, return
WithdrawRead(p) ==
  /\ At(p, "wd_read")
  /\ \E fail \in faults :
       IF fail
       THEN /\ Return(p, call[p], pre[p], ErrStorage, Fine(0), ZeroBalances,
                      Append(trace[p], Entry("GetByUserID", ErrStorage)))
            /\ UNCHANGED published
       ELSE \E writer \in Writers, delivered \in BOOLEAN :
              LET a == call[p].amount
                  logged == PublishLogged(writer, a, delivered)
                  err == PublishError(logged)
              IN /\ published' = published \o
                      publishTransaction(writer, a, call[p].user, "withdraw",
                                         delivered)
                 /\ Return(p, call[p], pre[p], err, Fine(0),
                           IF err = Nil
                           THEN GetByUserID(wallets, call[p].user)
                           ELSE ZeroBalances,
                           trace[p] \o <<Entry("GetByUserID", Nil),
                                         Entry("publishTransaction", logged)>>)
  /\ UNCHANGED <<wallets, cache, credited, wlog>>
  /\ UNCHANGED outside

----------------------------------------------------------------------------
(* WalletService.GetUserBalance(ctx, userID)                               *)

GetUserBalance(p) ==
  /\ Arrives(p)
  /\ \E u \in tokens, fail \in faults :
       LET cl == NewCall("GetUserBalance", u, "USD", "USD", 0)
           pr == Rows(wallets, u)
       IN IF fail
          THEN Return(p, cl, pr, ErrStorage, Fine(0), ZeroBalances,
                      <<Entry("GetByUserID", ErrStorage)>>)
          ELSE Return(p, cl, pr, Nil, Fine(0), GetByUserID(wallets, u),
                      <<Entry("GetByUserID", Nil)>>)
  /\ UNCHANGED <<wallets, cache, credited, wlog, published>>
  /\ UNCHANGED outside

----------------------------------------------------------------------------
(* WalletService.Exchange(ctx, userID, fromCurrency, toCurrency, amount)   *)

\* the rate of the pair for call cl, given what the cache lookup answered
ExchangeResolveRate(p, cl, pr, k, got, hit, miss) ==
  IF got # NoRate
  THEN /\ call' = [call EXCEPT ![p] = cl]
       /\ pre' = [pre EXCEPT ![p] = pr]
       /\ rate' = [rate EXCEPT ![p] = got]
       /\ Goto(p, "ex_withdraw", hit)
       /\ UNCHANGED <<cache, exchanged, alone>>
  ELSE \/ /\ Return(p, cl, pr, ExchangeRateError(ErrRateSource), Fine(0),
                    ZeroBalances,
                    Append(miss, Entry("SourceGet", ErrRateSource)))
          /\ UNCHANGED cache
       \/ \E r \in Rates, fail \in faults :
            LET seterr == IF fail THEN ErrCache ELSE Nil
                tr == miss \o <<Entry("SourceGet", Nil),
                                Entry("CacheSet", seterr)>>
            IN /\ cache' = IF fail THEN cache
                           ELSE [cache EXCEPT ![k] = FormatRate(r)]
               /\ IF ExchangeCacheSetError(seterr) # Nil
                  THEN Return(p, cl, pr, ExchangeCacheSetError(seterr),
                              Fine(0), ZeroBalances, tr)
                  ELSE /\ call' = [call EXCEPT ![p] = cl]
                       /\ pre' = [pre EXCEPT ![p] = pr]
                       /\ rate' = [rate EXCEPT ![p] = r]
                       /\ Goto(p, "ex_withdraw", tr)
                       /\ UNCHANGED <<exchanged, alone>>

\* the rate of the pair: s.cacheRepo.GetExchangeRateForCurrency; on its error
\* s.rateRepo.GetExchangeRateForCurrency, whose error is returned as it is,
\* and s.cacheRepo.SetExchangeRateForCurrency, whose failure is only logged.
\* The three calls touch nothing but the cache, and every caller writes the
\* same quote to it, so they are taken in one step.
ExchangeRate(p) ==
  /\ Arrives(p)
  /\ \E u \in tokens, rq \in ExchangeRequests :
     \E got \in CacheGetOutcomes(cache[rq[2]]) :
       LET a == rq[1]
           k == rq[2]
           cl == NewCall("Exchange", u, k[1], k[2], a)
           pr == Rows(wallets, u)
           hit == <<Entry("CacheGet", Nil)>>
           miss == <<Entry("CacheGet", ErrCache)>>
       IN IF ~ValidExchangeRequest(a, k[1], k[2])
          THEN Reject(p, cl, pr)
          ELSE /\ ExchangeResolveRate(p, cl, pr, k, got, hit, miss)
               /\ UNCHANGED <<wallets, credited, wlog, published>>
  /\ UNCHANGED outside

\* s.writeRepo.SaveWithdraw(ctx, userID, amount, fromCurrency)
ExchangeWithdraw(p) ==
  /\ At(p, "ex_withdraw")
  /\ \E fail \in faults :
       LET u == call[p].user
           c == call[p].cur
           r == SaveWithdrawRow(wallets[u, c], Fine(call[p].amount))
           err == IF fail THEN ErrStorage ELSE r.err
       IN /\ wallets' = IF fail THEN wallets
                         ELSE Upsert(wallets, u, c, r.bal)
          /\ wlog' = IF fail THEN wlog
                     ELSE [wlog EXCEPT ![u, c] =
                             Append(@, Answer("Exchange", call[p].amount,
                                              wallets[u, c], r))]
          /\ IF DepositFollows(err)
             THEN /\ alone' = Disturb(p, u)
                  /\ Goto(p, "ex_deposit",
                          Append(trace[p], Entry("SaveWithdraw", err)))
                  /\ UNCHANGED <<call, pre, rate, exchanged>>
             ELSE Return(p, call[p], pre[p], ExchangeWithdrawError(err),
                         Fine(0), ZeroBalances,
                         Append(trace[p], Entry("SaveWithdraw", err)))
  /\ UNCHANGED <<cache, credited, published>>
  /\ UNCHANGED outside

\* exchangedAmount = float32(amount) * rate;
\* s.writeRepo.SaveDeposit(ctx, userID, float64(exchangedAmount), toCurrency):
\* its error is returned as it is, with exchangedAmount
ExchangeDeposit(p) ==
  /\ At(p, "ex_deposit")
  /\ \E fail \in faults :
       LET u == call[p].user
           t == call[p].to
           x == ConvertedAmount(call[p].amount, rate[p])
       IN IF fail
          THEN /\ Return(p, call[p], pre[p], ExchangeDepositError(ErrStorage),
                         x, ZeroBalances,
                         Append(trace[p], Entry("SaveDeposit", ErrStorage)))
               /\ UNCHANGED <<wallets, credited>>
          ELSE /\ wallets' = Upsert(wallets, u, t,
                                  SaveDepositRow(wallets[u, t], x))
               /\ credited' = [credited EXCEPT ![u, t] = @ + RoundNumeric(x)]
               /\ exchanged' = [exchanged EXCEPT ![p] = x]
               /\ alone' = Disturb(p, u)
               /\ Goto(p, "ex_read", Append(trace[p], Entry("SaveDeposit", Nil)))
               /\ UNCHANGED <<call, pre, rate>>
  /\ UNCHANGED <<cache, wlog, published>>
  /\ UNCHANGED outside

\* s.readRepo.GetByUserID and return
ExchangeRead(p) ==
  /\ At(p, "ex_read")
  /\ \E fail \in faults :
       IF fail
       THEN Return(p, call[p], pre[p], ErrStorage, exchanged[p], ZeroBalances,
                   Append(trace[p], Entry("GetByUserID", ErrStorage)))
       ELSE Return(p, call[p], pre[p], Nil, exchanged[p],
                   GetByUserID(wallets, call[p].user),
                   Append(trace[p], Entry("GetByUserID", Nil)))
  /\ UNCHANGED <<wallets, cache, credited, wlog, published>>
  /\ UNCHANGED outside

----------------------------------------------------------------------------
(* Redis drops a key whose TTL has elapsed *)

CacheExpire ==
  /\ returned = NoRet
  /\ \E k \in CacheKeys :
       /\ cache[k] # NoRate
       /\ cache' = [cache EXCEPT ![k] = NoRate]
  /\ returned' = NoRet
  /\ UNCHANGED <<wallets, pc, call, rate, exchanged, trace, pre, alone,
                 credited, wlog, published>>
  /\ UNCHANGED outside

----------------------------------------------------------------------------
(* The handler writes the response of the call that returned. Writing it   *)
(* touches nothing another goroutine reads, so it is taken as the step     *)
(* that follows the return.                                                 *)

Respond ==
  /\ returned # NoRet
  /\ returned' = NoRet
  /\ UNCHANGED <<wallets, cache, pc, call, rate, exchanged, trace, pre, alone,
                 credited, wlog, published>>
  /\ UNCHANGED outside

----------------------------------------------------------------------------
Next ==
  \/ \E p \in Callers : DepositSave(p)
  \/ \E p \in Callers : DepositRead(p)
  \/ \E p \in Callers : WithdrawSave(p)
  \/ \E p \in Callers : WithdrawRead(p)
  \/ \E p \in Callers : GetUserBalance(p)
  \/ \E p \in Callers : ExchangeRate(p)
  \/ \E p \in Callers : ExchangeWithdraw(p)
  \/ \E p \in Callers : ExchangeDeposit(p)
  \/ \E p \in Callers : ExchangeRead(p)
  \/ CacheExpire
  \/ Respond

Spec == Init /\ [][Next]_vars

\* the wallet endpoints serving every user
SpecAllUsers == InitAllUsers /\ [][Next]_vars

----------------------------------------------------------------------------
(* TxMiddleware around the deposit, withdraw and exchange handlers: Begin, *)
(* the handler with its store calls, then Commit, or Rollback on a panic   *)

\* NewWalletWriterRepository(db, nil): the writer is built without a getter
txGetter == "nil"

\* the routes wrapped in txMiddleware and the store calls their handlers make
Routes == {"deposit", "withdraw", "exchange"}
Plan(route) ==
  IF route = "deposit" THEN <<"SaveDeposit", "GetByUserID">>
  ELSE IF route = "withdraw" THEN <<"SaveWithdraw", "GetByUserID">>
  ELSE <<"SaveWithdraw", "SaveDeposit", "GetByUserID">>

StoreCalls == {"SaveDeposit", "SaveWithdraw", "GetByUserID"}

\* what a statement runs on: the writer takes the transaction of the context
\* only through its getter, the reader always takes r.db
Executor(fn, getter) ==
  IF fn = "GetByUserID" THEN "db"
  ELSE IF getter = "nil" THEN "db"
  ELSE "tx"

Ev(ev, on) == [ev |-> ev, on |-> on]

\* http.ResponseWriter.WriteHeader: the first status written is the one sent
WriteHeader(sent, status) == IF sent = NoStatus THEN status ELSE sent

\* store calls the handler of request q has made
Made(log) == Cardinality({i \in 1..Len(log) : log[i].ev \in StoreCalls})

\* tx, err := db.Beginx(); on its error 500 and return
TxBegin(q) ==
  /\ txpc[q] = "new"
  /\ q > 1 => txpc[q - 1] # "new"
  /\ \E route \in Routes, ok \in BOOLEAN :
       IF ok
       THEN /\ txlog' = [txlog EXCEPT ![q] =
                          <<Ev("Begin", "db"), Ev("ServeHTTP", route)>>]
            /\ txpc' = [txpc EXCEPT ![q] = "handler"]
            /\ UNCHANGED resp
       ELSE /\ txlog' = [txlog EXCEPT ![q] = <<Ev("Begin failed", "db")>>]
            /\ resp' = [resp EXCEPT
                          ![q] = WriteHeader(@, StatusInternalServerError)]
            /\ txpc' = [txpc EXCEPT ![q] = "done"]
  /\ UNCHANGED <<ledger, redisVars, authVars>>

\* the handler answers 400 before it calls the service
HandlerReject(q) ==
  /\ txpc[q] = "handler"
  /\ Made(txlog[q]) = 0
  /\ resp' = [resp EXCEPT ![q] = WriteHeader(@, StatusBadRequest)]
  /\ txpc' = [txpc EXCEPT ![q] = "after"]
  /\ UNCHANGED <<txlog, ledger, redisVars, authVars>>

\* the next store call of the handler's service method; the handler answers
\* after a failed call, or after its last call
HandlerStoreCall(q) ==
  /\ txpc[q] = "handler"
  /\ LET plan == Plan(txlog[q][2].on)
         n == Made(txlog[q]) + 1
         fn == plan[n]
     IN /\ txlog' = [txlog EXCEPT
                       ![q] = Append(@, Ev(fn, Executor(fn, txGetter)))]
        /\ \E status \in {StatusOK, StatusBadRequest,
                           StatusInternalServerError} :
             IF status = StatusOK /\ n < Len(plan)
             THEN UNCHANGED <<txpc, resp>>
             ELSE /\ resp' = [resp EXCEPT ![q] = WriteHeader(@, status)]
                  /\ txpc' = [txpc EXCEPT ![q] = "after"]
  /\ UNCHANGED <<ledger, redisVars, authVars>>

\* the handler panics: the deferred function rolls back and panics again,
\* and chi's Recoverer answers 500
HandlerPanic(q) ==
  /\ txpc[q] = "handler"
  /\ txlog' = [txlog EXCEPT
                 ![q] = @ \o <<Ev("panic", "handler"), Ev("Rollback", "tx"),
                               Ev("panic", "TxMiddleware")>>]
  /\ resp' = [resp EXCEPT ![q] = WriteHeader(@, StatusInternalServerError)]
  /\ txpc' = [txpc EXCEPT ![q] = "done"]
  /\ UNCHANGED <<ledger, redisVars, authVars>>

\* tx.Commit() after the handler; on its error WriteHeader(500)
TxCommit(q) ==
  /\ txpc[q] = "after"
  /\ \E ok \in BOOLEAN :
       IF ok
       THEN /\ txlog' = [txlog EXCEPT ![q] = Append(@, Ev("Commit", "tx"))]
            /\ UNCHANGED resp
       ELSE /\ txlog' = [txlog EXCEPT
                          ![q] = Append(@, Ev("Commit failed", "tx"))]
            /\ resp' = [resp EXCEPT
                          ![q] = WriteHeader(@, StatusInternalServerError)]
  /\ txpc' = [txpc EXCEPT ![q] = "done"]
  /\ UNCHANGED <<ledger, redisVars, authVars>>

NextTx ==
  \/ \E q \in Callers : TxBegin(q)
  \/ \E q \in Callers : HandlerReject(q)
  \/ \E q \in Callers : HandlerStoreCall(q)
  \/ \E q \in Callers : HandlerPanic(q)
  \/ \E q \in Callers : TxCommit(q)

InitTx ==
  /\ WalletInit /\ tokens = Users /\ faults = BOOLEAN /\ RedisInit /\ TxInit
  /\ AuthInit

SpecTx == InitTx /\ [][NextTx]_vars

----------------------------------------------------------------------------
(* AuthService.Register over the user repositories, as main.go wires them *)

ErrUserAlreadyExists == "services.ErrUserAlreadyExists"
ErrUniqueViolation == "pq: duplicate key value violates unique constraint"

Usernames == {"alice", "bob"}
Emails == {"a@mail", "b@mail"}
Passwords == {"pw1", "pw2"}

\* bcrypt.GenerateFromPassword, as far as the table can tell hashes apart
Hash(password) == "bcrypt:" \o password

\* the rows of the query: username = $1 AND email = $2
Matching(tbl, username, email) ==
  {n \in DOMAIN tbl : tbl[n] # NoUser /\ n = username /\ tbl[n].email = email}

\* a reader that answers (nil, nil) when no row matches
GetByUsernameOrEmail_NilWhenAbsent(tbl, username, email) ==
  LET rows == Matching(tbl, username, email)
  IN IF rows = {} THEN [user |-> NoUser, err |-> Nil]
     ELSE [user |-> tbl[CHOOSE n \in rows : TRUE], err |-> Nil]

\* UserReadRepository.GetByUsernameOrEmail with both arguments given:
\* GetContext answers sql.ErrNoRows when no row matches
GetByUsernameOrEmail(tbl, username, email) ==
  LET rows == Matching(tbl, username, email)
  IN IF rows = {} THEN [user |-> NoUser, err |-> ErrNoRows]
     ELSE [user |-> tbl[CHOOSE n \in rows : TRUE], err |-> Nil]

\* UserWriteRepository.Save: INSERT ... ON CONFLICT (username) DO UPDATE SET
\* password_hash, email; the email column is UNIQUE as well
Save(tbl, username, hash, email) ==
  IF \E n \in DOMAIN tbl : n # username /\ tbl[n].email = email
  THEN [tbl |-> tbl, err |-> ErrUniqueViolation]
  ELSE [tbl |-> [tbl EXCEPT ![username] = [email |-> email, hash |-> hash]],
        err |-> Nil]

\* AuthService.Register(username, password, email)
Register(username, password, email) ==
  LET found == GetByUsernameOrEmail(users, username, email)
      saved == Save(users, username, Hash(password), email)
      err == IF found.err # Nil THEN found.err
             ELSE IF found.user # NoUser THEN ErrUserAlreadyExists
             ELSE saved.err
  IN /\ users' = IF found.err = Nil /\ found.user = NoUser
                  THEN saved.tbl ELSE users
     /\ registered' = [username |-> username, password |-> password,
                        email |-> email, err |-> err, before |-> users]
     /\ UNCHANGED <<ledger, redisVars, txVars>>

NextAuth ==
  \E username \in Usernames, password \in Passwords, email \in Emails :
     Register(username, password, email)

\* the tables the database can hold when the service starts: usernames and
\* emails are both UNIQUE
UserTables ==
  {t \in [Usernames -> {NoUser} \cup [email : Emails,
                                        hash : {Hash(p) : p \in Passwords}]] :
     \A n, m \in Usernames :
        n # m /\ t[n] # NoUser /\ t[m] # NoUser => t[n].email # t[m].email}

InitAuth ==
  /\ WalletInit /\ tokens = Users /\ faults = {FALSE} /\ RedisInit /\ TxInit
  /\ users \in UserTables
  /\ registered = NoRegister

SpecAuth == InitAuth /\ [][NextAuth]_vars

----------------------------------------------------------------------------
(* ExchangeRateCacheRepository over Redis, on its own: the rate is written *)
(* as a string with an expiry and read back until the key is due           *)

\* r.client.Set(ctx, key, fmt.Sprintf("%f", rate), r.exp)
SetExchangeRateForCurrency(from, to, r) ==
  /\ redis' = [redis EXCEPT ![RedisKey(from, to)] =
                 [val |-> FormatRate(r), due |-> now + RedisExp]]
  /\ lastSet' = [lastSet EXCEPT ![from, to] = [rate |-> r, at |-> now]]
  /\ answer' = NoAnswer
  /\ UNCHANGED <<now, ledger, txVars, authVars>>

\* r.client.Get(ctx, key): redis.Nil for a key that is absent or due, else
\* strconv.ParseFloat of the string
GetExchangeRateForCurrency(from, to) ==
  /\ LET e == redis[RedisKey(from, to)]
     IN answer' = [pair |-> <<from, to>>, at |-> now,
                   rate |-> IF Live(e, now) THEN e.val ELSE NoRate]
  /\ UNCHANGED <<redis, now, lastSet, ledger, txVars, authVars>>

\* a second passes
Tick ==
  /\ now < MaxTime
  /\ now' = now + 1
  /\ answer' = NoAnswer
  /\ UNCHANGED <<redis, lastSet, ledger, txVars, authVars>>

NextCache ==
  \/ \E pr \in Pairs, r \in QuotedRates :
       SetExchangeRateForCurrency(pr[1], pr[2], r)
  \/ \E pr \in Pairs : GetExchangeRateForCurrency(pr[1], pr[2])
  \/ Tick

InitCache ==
  /\ WalletInit /\ tokens = {} /\ faults = {FALSE} /\ RedisInit /\ TxInit
  /\ AuthInit

SpecCache == InitCache /\ [][NextCache]_vars

----------------------------------------------------------------------------
(* Properties *)

Keys == Users \X Codes

RECURSIVE SumOk(_)
\* the amounts of the statements of log that returned nil, added up
SumOk(log) ==
  IF log = <<>> THEN 0
  ELSE (IF log[1].err = Nil THEN log[1].amount ELSE 0) + SumOk(Tail(log))

\* no SaveWithdraw statement has taken anything from the row
NoDebit(k) == \A i \in 1..Len(wlog[k]) : wlog[k][i].err # Nil

Called(tr, fn) == \E i \in 1..Len(tr) : tr[i].fn = fn

CalledWith(tr, fn, err) == \E i \in 1..Len(tr) : tr[i] = Entry(fn, err)

Calls(tr, fn) == Cardinality({i \in 1..Len(tr) : tr[i].fn = fn})

\* the balance the SaveWithdraw of an Exchange that ran alone left in the
\* source row
SourceAfterDebit(ret) ==
  IF ret.pre[ret.cur] = NoRow THEN 0 ELSE ret.pre[ret.cur] - ret.amount

\* C1: every stored balance is at least 0 in every reachable state, whatever
\* the interleaving of Deposit, Withdraw and Exchange calls
C1_BalanceNeverNegative ==
  \A k \in Keys : wallets[k] = NoRow \/ wallets[k] >= 0

\* C1 witness: a row that was paid into has been drawn down to 0 and a
\* further withdrawal from it was refused
C1_DrainedRowRefuses ==
  \E k \in Keys :
    /\ wallets[k] = 0
    /\ credited[k] > 0
    /\ \E i \in 1..Len(wlog[k]) : wlog[k][i].err = ErrNoRows

\* C2: when the row holds exactly `amount` and two Withdraw calls for
\* `amount` reach the store one after the other with no deposit between them,
\* the first is applied and the second is refused by the conditional check:
\* exactly one success and one insufficient-funds refusal, never two successes
C2_OneOfTwoWithdrawalsSucceeds ==
  \A k \in Keys : \A i \in 1..Len(wlog[k]) - 1 :
    LET first == wlog[k][i]
        second == wlog[k][i + 1]
    IN (/\ first.op = "Withdraw"
        /\ second.op = "Withdraw"
        /\ first.before = first.amount
        /\ second.amount = first.amount
        /\ second.before = first.after)
       => /\ first.err = Nil
          /\ second.err = ErrNoRows
          /\ first.after = 0
          /\ second.after = 0
          /\ SumOk(<<first, second>>) = first.amount

\* C2 witness: two Withdraw calls for the whole balance were in flight
\* together; both have been answered by the store
C2_TwoWithdrawalsOfWholeBalance ==
  \E k \in Keys :
    /\ Len(wlog[k]) = 2
    /\ wlog[k][1].op = "Withdraw"
    /\ wlog[k][2].op = "Withdraw"
    /\ wlog[k][1].before = wlog[k][1].amount
    /\ wlog[k][2].amount = wlog[k][1].amount
    /\ pc[1] = "wd_read"
    /\ returned.op = "Withdraw"
    /\ returned.err = ErrNoRows

\* C3: for each (user, currency) the withdrawals that succeeded never add up
\* to more than the deposits that succeeded before them
C3_WithdrawnWithinDeposited ==
  \A k \in Keys : SumOk(wlog[k]) <= credited[k]

\* C4: while nothing has been withdrawn from a (user, currency), the balance
\* GetBalances reads for it is the sum of the amounts deposited into it, in
\* whatever order the deposits reached the store
C4_DepositsAddUp ==
  /\ \A k \in Keys :
       NoDebit(k) => GetByUserID(wallets, k[1])[k[2]] = credited[k]
  /\ (returned.op = "GetUserBalance" /\ returned.err = Nil)
       => \A c \in Currencies :
            NoDebit(<<returned.user, c>>)
              => returned.bal[c] = credited[returned.user, c]

\* C4 witness: two deposits of different amounts into a currency that had no
\* row have both been stored, and the second one reads their sum back
C4_TwoDepositsReadBack ==
  /\ returned.op = "Deposit"
  /\ returned.err = Nil
  /\ returned.cur = "EUR"
  /\ returned.pre["EUR"] # NoRow
  /\ wlog[returned.user, "EUR"] = <<>>
  /\ credited[returned.user, "EUR"] = 3
  /\ returned.bal["EUR"] = 3

\* C5: a SaveWithdraw against a row that holds less than the amount, or
\* against no row, is refused and leaves the table as it was
C5_RefusedWithoutFunds ==
  \A k \in Keys : \A i \in 1..Len(wlog[k]) :
    LET e == wlog[k][i]
    IN (e.before = NoRow \/ e.before < e.amount)
       => e.err = ErrNoRows /\ e.after = e.before

\* C6: an Exchange whose source row holds less than the amount, or does not
\* exist, returns ErrInsufficientFunds, makes no deposit and leaves the target
\* balance as it was
C6_ExchangeRefusedWithoutFunds ==
  (/\ returned.op = "Exchange"
   /\ returned.alone
   /\ Called(returned.trace, "SaveWithdraw")
   /\ \/ returned.pre[returned.cur] = NoRow
      \/ returned.pre[returned.cur] < returned.amount)
  => /\ returned.err = ErrInsufficientFunds
     /\ ~Called(returned.trace, "SaveDeposit")
     /\ wallets[returned.user, returned.to] = returned.pre[returned.to]

\* C7: when the cache lookup fails and the rate source fails too, Exchange
\* returns the source's error as it is, calls neither SaveWithdraw nor
\* SaveDeposit and leaves every balance as it was
C7_RateFailureAbortsExchange ==
  (/\ returned.op = "Exchange"
   /\ CalledWith(returned.trace, "CacheGet", ErrCache)
   /\ CalledWith(returned.trace, "SourceGet", ErrRateSource))
  => /\ returned.err = ErrRateSource
     /\ ~Called(returned.trace, "SaveWithdraw")
     /\ ~Called(returned.trace, "SaveDeposit")
     /\ returned.alone => Rows(wallets, returned.user) = returned.pre

\* C7 witness: an Exchange returned after both rate lookups failed
C7_BothRateLookupsFailed ==
  /\ returned.op = "Exchange"
  /\ returned.trace = <<Entry("CacheGet", ErrCache),
                        Entry("SourceGet", ErrRateSource)>>

\* the spec's PartialExchangeFailure
ErrPartialExchangeFailure == "PartialExchangeFailure"

C9_ExchangeMovesExactAmounts ==
  (returned.op = "Exchange" /\ returned.err = Nil /\ returned.alone)
  => /\ returned.bal[returned.cur] =
          Balance(returned.pre[returned.cur]) - returned.amount
     /\ Fine(returned.bal[returned.to] - Balance(returned.pre[returned.to])) =
          ConvertedAmount(returned.amount, returned.rate)
     /\ returned.exchanged = ConvertedAmount(returned.amount, returned.rate)

\* the store calls of one Exchange: SaveWithdraw and SaveDeposit at most once
\* each, SaveDeposit only after SaveWithdraw returned nil
StoreCallsInOrder(tr) ==
  /\ Calls(tr, "SaveWithdraw") <= 1
  /\ Calls(tr, "SaveDeposit") <= 1
  /\ \A i \in 1..Len(tr) :
       tr[i].fn = "SaveDeposit"
         => \E j \in 1..(i - 1) : tr[j] = Entry("SaveWithdraw", Nil)

\* C10: within one Exchange the deposit is issued only after the withdrawal
\* returned success, never after a failed withdrawal, and each of the two
\* store mutations is issued at most once
C10_WithdrawBeforeDeposit ==
  /\ \A p \in Callers :
       call[p].op = "Exchange" => StoreCallsInOrder(trace[p])
  /\ returned.op = "Exchange" => StoreCallsInOrder(returned.trace)

\* C10 witness: an Exchange has returned after its withdrawal took the
\* amount from the source row and its deposit was then stored
C10_WithdrawnThenDeposited ==
  /\ returned.op = "Exchange"
  /\ returned.err = Nil
  /\ returned.pre[returned.cur] >= returned.amount
  /\ returned.trace[Len(returned.trace) - 2] = Entry("SaveWithdraw", Nil)
  /\ returned.trace[Len(returned.trace) - 1] = Entry("SaveDeposit", Nil)

\* the ordered pair of currencies of call c
Pair(c) == <<c.cur, c.to>>

\* goroutine p starts an Exchange in this step
StartsExchange(p) == Arrives(p) /\ call'[p].op = "Exchange"

\* a call with this trace that found its rate in the cache did not call the
\* rate source or SetExchangeRateForCurrency
HitSkipsSource(tr) ==
  CalledWith(tr, "CacheGet", Nil)
    => (~Called(tr, "SourceGet") /\ ~Called(tr, "CacheSet"))

\* goroutine p starts an Exchange with a cache hit only on a rate that is in
\* the cache, takes it as its rate and leaves the cache alone
HitUsesCachedRate(p) ==
  (StartsExchange(p) /\ CalledWith(trace'[p], "CacheGet", Nil))
    => (/\ cache[Pair(call'[p])] # NoRate
        /\ rate'[p] = cache[Pair(call'[p])]
        /\ cache' = cache)

\* C11: an Exchange whose cache lookup answers a rate found that rate in the
\* cache, uses it as its rate, and calls neither the rate source nor
\* SetExchangeRateForCurrency, in that step or later in the call
C11_CacheHitSkipsSource ==
  /\ [](\A p \in Callers : call[p].op = "Exchange" => HitSkipsSource(trace[p]))
  /\ [](returned.op = "Exchange" => HitSkipsSource(returned.trace))
  /\ [][\A p \in Callers : HitUsesCachedRate(p)]_vars

\* C11 witness: an Exchange that found its rate in the cache has returned
\* success
C11_ExchangedAtCachedRate ==
  /\ returned.op = "Exchange"
  /\ returned.err = Nil
  /\ returned.trace[1] = Entry("CacheGet", Nil)
  /\ returned.rate \in {FormatRate(r) : r \in Rates}

\* one rate source call, and one SetExchangeRateForCurrency call if it
\* returned a rate
SourceOnceThenSet(tr) ==
  /\ Calls(tr, "SourceGet") = 1
  /\ Calls(tr, "CacheSet") = (IF CalledWith(tr, "SourceGet", Nil) THEN 1 ELSE 0)

\* a call with this trace whose cache lookup failed
MissAsksSourceOnce(tr) ==
  CalledWith(tr, "CacheGet", ErrCache) => SourceOnceThenSet(tr)

\* a SetExchangeRateForCurrency of goroutine p that succeeds in this step
\* leaves the source's rate in the cache under the pair
SetStoresSourceRate(p) ==
  (StartsExchange(p) /\ CalledWith(trace'[p], "CacheSet", Nil))
    => (/\ rate'[p] \in Rates
        /\ cache' = [cache EXCEPT ![Pair(call'[p])] = rate'[p]])

\* C12: an Exchange whose cache lookup fails calls the rate source exactly
\* once and, if the source returns a rate, SetExchangeRateForCurrency exactly
\* once; a SetExchangeRateForCurrency that succeeds leaves the source's rate
\* in the cache under the pair
C12_CacheMissAsksSourceOnce ==
  /\ [](\A p \in Callers :
          call[p].op = "Exchange" => MissAsksSourceOnce(trace[p]))
  /\ [](returned.op = "Exchange" => MissAsksSourceOnce(returned.trace))
  /\ [][\A p \in Callers : SetStoresSourceRate(p)]_vars

\* C12 witness: an Exchange is in flight whose cache lookup failed, whose
\* rate came from the source and is now in the cache
C12_RateFetchedAndCached ==
  \E p \in Callers :
    /\ call[p].op = "Exchange"
    /\ trace[p] = <<Entry("CacheGet", ErrCache), Entry("SourceGet", Nil),
                    Entry("CacheSet", Nil)>>
    /\ cache[Pair(call[p])] = rate[p]

\* every store call of tr returned nil
StoreCallsSucceeded(tr) ==
  \A i \in 1..Len(tr) :
    tr[i].fn \in {"SaveWithdraw", "SaveDeposit", "GetByUserID"}
      => tr[i].err = Nil

\* the returned Exchange went through its store calls without an error
ExchangeStoreCallsSucceeded ==
  Called(returned.trace, "GetByUserID") /\ StoreCallsSucceeded(returned.trace)

\* the returned Exchange is a success with amount * rate
ExchangeSucceededAtRate ==
  /\ returned.err = Nil
  /\ returned.exchanged = ConvertedAmount(returned.amount, returned.rate)

\* C13: an Exchange whose SetExchangeRateForCurrency failed goes on with the
\* rate the source returned: it never returns the cache error, it issues the
\* withdrawal, and if its store calls all succeed it returns success with
\* amount * rate
C13_CacheSetFailureIgnored ==
  /\ \A p \in Callers :
       (call[p].op = "Exchange" /\ CalledWith(trace[p], "CacheSet", ErrCache))
         => rate[p] \in Rates
  /\ (returned.op = "Exchange"
        /\ CalledWith(returned.trace, "CacheSet", ErrCache))
       => (/\ returned.err # ErrCache
           /\ returned.rate \in Rates
           /\ Called(returned.trace, "SaveWithdraw")
           /\ ExchangeStoreCallsSucceeded => ExchangeSucceededAtRate)

\* C13 witness: an Exchange whose SetExchangeRateForCurrency failed has
\* withdrawn and deposited at the source's rate and returned success
C13_ExchangedAfterCacheSetFailed ==
  /\ returned.op = "Exchange"
  /\ returned.err = Nil
  /\ CalledWith(returned.trace, "CacheSet", ErrCache)
  /\ CalledWith(returned.trace, "SaveDeposit", Nil)
  /\ returned.exchanged = ConvertedAmount(returned.amount, returned.rate)

\* C14: a Withdraw against a row that holds less than the amount returns
\* services.ErrInsufficientFunds, and the withdraw handler answers 400
C14_RefusedWithdrawIsInsufficientFunds ==
  (/\ returned.op = "Withdraw"
   /\ returned.pre[returned.cur] # NoRow
   /\ returned.pre[returned.cur] < returned.amount
   /\ returned.trace # <<>>
   /\ returned.trace[1].err # ErrStorage)
  => (returned.err = ErrInsufficientFunds /\ returned.status = StatusBadRequest)

\* a storage failure of the withdrawal is not reported as insufficient funds
StorageFailureKeepsItsName ==
  CalledWith(returned.trace, "SaveWithdraw", ErrStorage)
    => (returned.err # ErrInsufficientFunds
        /\ returned.status # StatusBadRequest)

\* a refused withdrawal is not reported as a storage or internal error
RefusalKeepsItsName ==
  CalledWith(returned.trace, "SaveWithdraw", ErrNoRows)
    => (returned.err = ErrInsufficientFunds
        /\ returned.status # StatusInternalServerError)

\* C15: Withdraw and Exchange report a storage failure of the withdrawal and
\* a refused withdrawal as different errors: the first never as insufficient
\* funds, the second never as a storage or internal error
C15_StorageAndFundsErrorsDistinct ==
  returned.op \in {"Withdraw", "Exchange"}
    => (StorageFailureKeepsItsName /\ RefusalKeepsItsName)

\* request c is a deposit or withdrawal with an amount that is not positive or
\* a code that is not recognized
InvalidMoneyRequest(c) ==
  /\ c.op \in {"Deposit", "Withdraw"}
  /\ c.amount <= 0 \/ c.cur \notin validCurrencies

\* C16: a Deposit or Withdraw request with amount <= 0 or with an
\* unrecognized currency never reaches the service: the handler answers 400,
\* no store call is made and the user's rows are as they were
C16_InvalidMoneyRequestRejected ==
  /\ \A p \in Callers : ~InvalidMoneyRequest(call[p])
  /\ InvalidMoneyRequest(returned)
       => (/\ returned.status = StatusBadRequest
           /\ returned.err = NotCalled
           /\ returned.trace = <<>>
           /\ Rows(wallets, returned.user) = returned.pre)

\* C16 witness: a Deposit request that names an unrecognized currency was
\* answered 400 while the table already held a row
C16_DepositOfUnknownCodeRejected ==
  /\ returned.op = "Deposit"
  /\ returned.cur \in Unrecognized
  /\ returned.amount > 0
  /\ returned.status = StatusBadRequest
  /\ \E c \in Currencies : wallets[returned.user, c] # NoRow

\* call c is an Exchange that names an unrecognized code
UnrecognizedExchange(c) ==
  /\ c.op = "Exchange"
  /\ c.cur \notin validCurrencies \/ c.to \notin validCurrencies

NoStoreMutation(tr) == ~Called(tr, "SaveWithdraw") /\ ~Called(tr, "SaveDeposit")

\* C17: an Exchange that names an unrecognized code fails without a
\* SaveWithdraw or SaveDeposit call, and no row is ever created for such a
\* code
C17_UnrecognizedExchangeRejected ==
  /\ \A p \in Callers :
       UnrecognizedExchange(call[p]) => NoStoreMutation(trace[p])
  /\ UnrecognizedExchange(returned)
       => (NoStoreMutation(returned.trace) /\ returned.err # Nil)
  /\ \A u \in Users, c \in Unrecognized : wallets[u, c] = NoRow

\* the returned call is a Deposit or a Withdraw whose store calls succeeded
MoneyStoreCallsSucceeded ==
  /\ returned.op \in {"Deposit", "Withdraw"}
  /\ Called(returned.trace, "GetByUserID")
  /\ StoreCallsSucceeded(returned.trace)

\* the row of the returned Deposit or Withdraw, which ran alone, holds what
\* its statement left in it
MutationStands ==
  LET row == wallets[returned.user, returned.cur]
      was == returned.pre[returned.cur]
  IN IF returned.op = "Deposit"
     THEN row = Balance(was) + returned.amount
     ELSE row = SourceAfterDebit(returned)

\* C18: whatever publishTransaction met (no writer, a failed WriteMessages, a
\* delivered message), a Deposit or Withdraw whose store calls succeeded
\* returns nil with the balances read back, the endpoint answers 200, and the
\* row keeps the mutation; the publish error is never returned
C18_PublishFailureSwallowed ==
  /\ returned.op \in {"Deposit", "Withdraw"}
       => returned.err \notin {ErrPublish, ErrNoWriter}
  /\ MoneyStoreCallsSucceeded
       => (/\ Called(returned.trace, "publishTransaction")
           /\ returned.err = Nil
           /\ returned.status = StatusOK
           /\ returned.bal = GetByUserID(wallets, returned.user)
           /\ returned.alone => MutationStands)

\* C18 witness: a Deposit of a large amount returned success although
\* WriteMessages failed, and the balance holds the deposit
C18_DepositedWhilePublishFailed ==
  /\ returned.op = "Deposit"
  /\ returned.amount >= LargeAmount
  /\ CalledWith(returned.trace, "publishTransaction", ErrPublish)
  /\ \E i \in 1..Len(published) : ~published[i].delivered
  /\ returned.err = Nil
  /\ wallets[returned.user, returned.cur] >= LargeAmount

\* C19: every successful Exchange has handed publishTransaction one record
\* before it returned
C19_ExchangePublishesAuditRecord ==
  (returned.op = "Exchange" /\ returned.err = Nil)
    => Calls(returned.trace, "publishTransaction") = 1

\* this step is a whole GetUserBalance call
GetUserBalanceStep ==
  returned.op = "none" /\ returned'.op = "GetUserBalance"

\* the step wrote no row, no statement and no message
ReadOnlyStep ==
  /\ wallets' = wallets
  /\ published' = published
  /\ UNCHANGED <<credited, wlog, cache>>

\* the returned GetUserBalance, whose SELECT succeeded, reports no error and
\* the stored balances, 0 for a currency without row
BalancesReported ==
  (/\ returned.op = "GetUserBalance"
   /\ returned.trace = <<Entry("GetByUserID", Nil)>>)
  => (/\ returned.err = Nil
      /\ returned.status = StatusOK
      /\ Rows(wallets, returned.user) = returned.pre
      /\ \A c \in Codes :
           returned.bal[c] = IF returned.pre[c] = NoRow THEN 0
                             ELSE returned.pre[c])

\* C20: GetUserBalance changes no balance, creates no row and publishes
\* nothing; for a user without rows it returns 0 for every currency and no
\* error
C20_GetBalancesReadOnly ==
  [](BalancesReported) /\ [][GetUserBalanceStep => ReadOnlyStep]_vars

\* C20 witness: GetUserBalance for a user without any row returned zeros and
\* no error
C20_NoRowsReadAsZeros ==
  /\ returned.op = "GetUserBalance"
  /\ returned.pre = NoRows
  /\ returned.err = Nil
  /\ returned.bal = ZeroBalances
  /\ Rows(wallets, returned.user) = NoRows

\* C21: the balance a successful Deposit returns for its currency is the
\* balance the row held right after this call's own SaveDeposit, also when
\* other calls on the row ran between the statement and the read-back
C21_DepositSnapshotIsOwnResult ==
  (returned.op = "Deposit" /\ returned.err = Nil)
    => returned.bal[returned.cur] =
         Balance(returned.pre[returned.cur]) + returned.amount

\* the statements of log are Withdraw statements of one amount, each found
\* the row as the one before left it, and together they ask for no more than
\* the row held at first
WithdrawalsWithinBalance(log) ==
  /\ log # <<>>
  /\ log[1].before # NoRow
  /\ \A i \in 1..Len(log) :
       log[i].op = "Withdraw" /\ log[i].amount = log[1].amount
  /\ \A i \in 1..Len(log) - 1 : log[i + 1].before = log[i].after
  /\ Len(log) * log[1].amount <= log[1].before

\* every statement of log was applied, and the last left what the row held
\* at first less all the amounts
AllWithdrawalsApplied(log) ==
  /\ \A i \in 1..Len(log) : log[i].err = Nil
  /\ log[Len(log)].after = log[1].before - Len(log) * log[1].amount

\* C24: k Withdraw calls of amount a against a row that holds B >= k * a, in
\* whatever order their statements reach the store, are all applied, and the
\* row is left with exactly B - k * a
C24_ConcurrentWithdrawalsAllApplied ==
  \A k \in Keys :
    WithdrawalsWithinBalance(wlog[k]) => AllWithdrawalsApplied(wlog[k])

\* C24 witness: two Withdraw calls of 0.01 against 0.02 were in flight
\* together, both statements were applied and the row holds 0
C24_TwoWithdrawalsInFlight ==
  \E k \in Keys :
    /\ Len(wlog[k]) = 2
    /\ WithdrawalsWithinBalance(wlog[k])
    /\ wlog[k][1].before = 2 * wlog[k][1].amount
    /\ pc[1] = "wd_read"
    /\ pc[2] = "wd_read"
    /\ wallets[k] = 0

\* this step returns a Deposit or a Withdraw that the handler had let through
MoneyReturnStep ==
  /\ returned.op = "none"
  /\ returned'.op \in {"Deposit", "Withdraw"}
  /\ returned'.err # NotCalled

\* messages this step handed to the Kafka writer
PublishCalls == Len(published') - Len(published)

\* the returning call met a configured writer
WriterConfigured ==
  ~CalledWith(returned'.trace, "publishTransaction", ErrNoWriter)

\* C27: with a writer configured, a successful Deposit or Withdraw hands the
\* writer one message when its amount is above the threshold and none when
\* it is equal to or below it; a failed one hands it none
C27_PublishOnlyAboveThreshold ==
  [][MoneyReturnStep =>
       /\ returned'.err # Nil => PublishCalls = 0
       /\ (returned'.err = Nil /\ WriterConfigured)
            => PublishCalls = (IF returned'.amount > LargeAmount THEN 1 ELSE 0)
    ]_vars

\* C29: when a Deposit or Withdraw that ran alone returns an error, the
\* user's rows are as they were before the call
C29_ErrorMeansNoMutation ==
  (/\ returned.op \in {"Deposit", "Withdraw"}
   /\ returned.err \notin {Nil, NotCalled}
   /\ returned.alone)
  => Rows(wallets, returned.user) = returned.pre

\* the call that took this step: the one that returned, or the one whose
\* goroutine moved
Acting ==
  IF returned'.op # "none" THEN returned'
  ELSE call'[CHOOSE p \in Callers : pc'[p] # pc[p]]

\* the rows a call names: (user, currency), and for Exchange (user, from) and
\* (user, to)
Named(c) == {<<c.user, c.cur>>, <<c.user, c.to>>}

\* C28: a step of Deposit, Withdraw or Exchange for user U changes only rows
\* the call names, (U, currency) or (U, from) and (U, to); every other row,
\* of U and of every other user, is left as it was, in every interleaving
\* with the other users' calls
C28_OnlyNamedRowsChange ==
  [][\A k \in Keys : wallets'[k] # wallets[k] => k \in Named(Acting)]_vars

\* C28 witness: calls of two users are in flight together and each user's
\* row has been written
C28_TwoUsersInFlight ==
  /\ pc[1] \notin {"new", "done"}
  /\ pc[2] \notin {"new", "done"}
  /\ call[1].user # call[2].user
  /\ \A p \in 1..2 : wallets[call[p].user, call[p].cur] # NoRow
  /\ \E p \in 1..2 : credited[call[p].user, call[p].cur] > 0

\* C25: GetRate(A, B) returns the rate of the last SetRate(A, B, r) while
\* the expiry has not passed since it, and the not-found error otherwise:
\* after the expiry as for a pair that was never set, and whatever was set
\* for other pairs
C25_CacheRoundTripAndExpiry ==
  answer # NoAnswer
    => LET s == lastSet[answer.pair]
       IN IF s # NoSet /\ answer.at < s.at + RedisExp
          THEN answer.rate = s.rate
          ELSE answer.rate = NoRate

----------------------------------------------------------------------------
\* events of one kind in the log of a request
Count(log, ev) == Cardinality({i \in 1..Len(log) : log[i].ev = ev})

\* the events of the log that come after the handler was invoked
AfterHandler(log, ev) ==
  \A i \in 1..Len(log) :
     log[i].ev = ev => \E j \in 1..(i - 1) : log[j].ev = "ServeHTTP"

\* C23: for every request that has passed through TxMiddleware: a failed
\* Begin is answered 500 and the handler is never invoked; after a Begin that
\* succeeded exactly one of Commit and Rollback is called, after the handler;
\* it is Rollback, followed by the panic again and no Commit, exactly when
\* the handler panicked, and Commit otherwise, whatever status the handler
\* wrote; and a Commit that failed is answered 500.
C23_TxMiddlewareProtocol ==
  \A q \in Callers :
     txpc[q] = "done" =>
       LET log == txlog[q]
           commits == Count(log, "Commit") + Count(log, "Commit failed")
           panicked == \E i \in 1..Len(log) : log[i] = Ev("panic", "handler")
       IN IF log[1].ev = "Begin failed"
          THEN /\ resp[q] = StatusInternalServerError
               /\ Count(log, "ServeHTTP") = 0
          ELSE /\ Count(log, "ServeHTTP") = 1
               /\ commits + Count(log, "Rollback") = 1
               /\ AfterHandler(log, "Commit")
               /\ AfterHandler(log, "Commit failed")
               /\ AfterHandler(log, "Rollback")
               /\ panicked <=> Count(log, "Rollback") = 1
               /\ panicked => log[Len(log)] = Ev("panic", "TxMiddleware")
               /\ ~panicked => commits = 1
               /\ Count(log, "Commit failed") = 1 =>
                    resp[q] = StatusInternalServerError

\* C26: every store call made while serving a request wrapped by
\* TxMiddleware runs on the transaction handle of that request.
C26_StoreCallsRunOnRequestTx ==
  \A q \in Callers :
     \A i \in 1..Len(txlog[q]) :
        txlog[q][i].ev \in StoreCalls => txlog[q][i].on = "tx"

\* some user of the table before the call had the username or the email
Taken(tbl, username, email) ==
  \E n \in DOMAIN tbl :
     tbl[n] # NoUser /\ (n = username \/ tbl[n].email = email)

\* C22: Register over the repositories as wired succeeds and stores the user
\* when no existing user has the username or the email, and returns
\* ErrUserAlreadyExists and stores nothing when one has.
C22_RegisterStoresOrRefuses ==
  registered # NoRegister =>
    IF Taken(registered.before, registered.username, registered.email)
    THEN /\ registered.err = ErrUserAlreadyExists
         /\ users = registered.before
    ELSE /\ registered.err = Nil
         /\ users[registered.username] =
              [email |-> registered.email, hash |-> Hash(registered.password)]

\* C30: no Register call changes the stored hash or email of a user who is
\* already registered, whether the call repeats the user's email or not.
C30_RegisterNeverOverwrites ==
  [][\A n \in Usernames : users[n] # NoUser => users'[n] = users[n]]_vars

\* C30 witness: a Register call for a taken username with another email and
\* another password has returned
C30_TakenUsernameTried ==
  /\ registered # NoRegister
  /\ registered.before[registered.username] # NoUser
  /\ registered.before[registered.username].email # registered.email
  /\ registered.before[registered.username].hash # Hash(registered.password)
  /\ \A n \in Usernames : registered.before[n].email # registered.email

====
